---- MODULE Spec2Model ----
(***************************************************************************)
(* Model of the animation clock of bevy_aseprite (src/anim.rs):            *)
(* AsepriteAnimation with next_frame, current_frame_duration, update,      *)
(* play, pause, toggle and get_first_frame, run against an AsepriteInfo    *)
(* (frame_count, per-frame delay_ms, named tags with a frame range and an  *)
(* animation direction).  Time is counted in whole milliseconds.           *)
(***************************************************************************)
EXTENDS Integers, Sequences, FiniteSets, TLC

VARIABLES info, anim, status, pc, frame_changed, pre, lastOp, lastDt, ret,
          first_frame

vars == <<info, anim, status, pc, frame_changed, pre, lastOp, lastDt, ret,
          first_frame>>

----------------------------------------------------------------------------
(* Bounds of the model *)

MaxFrames == 3
MaxDelay == 2
MaxDt == 3
MaxK == 3

----------------------------------------------------------------------------
(* AsepriteInfo: the frame table and its tags *)

U16Modulus == 65536

NoTag == "None"

TagNames == {"walk"}

Directions == {"Forward", "Reverse", "PingPong"}

\* tag.frames is a Range<u16> [start, end) with start < end <= frame_count
TagRecs(fc) ==
  {t \in [start : 0..MaxFrames, end : 0..MaxFrames, animation_direction : Directions] :
     t.start < t.end /\ t.end <= fc}

\* info.tags: a map from tag names to tags; here empty or holding "walk"
TagMaps(fc) ==
  {[n \in {} |-> 0]} \cup {[n \in TagNames |-> t] : t \in TagRecs(fc)}

Tables ==
  UNION {[frame_count : {fc}, delay_ms : [1..fc -> 0..MaxDelay], tags : TagMaps(fc)] :
           fc \in 0..MaxFrames}

----------------------------------------------------------------------------
(* AsepriteAnimation *)

\* #[derive(Default)]: every field at its default value
AnimDefault ==
  [is_playing |-> FALSE, tag |-> NoTag, current_frame |-> 0, forward |-> FALSE,
   time_elapsed |-> 0, tag_changed |-> FALSE]

\* AsepriteAnimation::tag(tag): Some(tag), the rest Default
AnimTag(t) == [AnimDefault EXCEPT !.tag = t]

\* `as u16`
U16(x) == x % U16Modulus

\* Range<u16>::contains
Contains(range, v) == range.start <= v /\ v < range.end

\* info.tags.get(tag) is Some
TagFound(a, inf) == a.tag \in DOMAIN inf.tags

\* info.frame_infos[self.current_frame] is inside the vector
InBounds(a, inf) == a.current_frame < inf.frame_count

current_frame_duration(a, inf) == inf.delay_ms[a.current_frame + 1]

Ok(a) == [anim |-> a, status |-> "ok"]

Panic(a) == [anim |-> a, status |-> "panic"]

\* a wrap to frame 0 instead of the range start
next_frame_forward_zero(a, range) ==
  LET nf == a.current_frame + 1 IN
    IF Contains(range, U16(nf))
      THEN Ok([a EXCEPT !.current_frame = nf])
      ELSE Ok([a EXCEPT !.current_frame = 0])

\* a wrap taken only on reaching the range end
next_frame_forward_at_end(a, range) ==
  LET nf == a.current_frame + 1 IN
    IF nf = range.end
      THEN Ok([a EXCEPT !.current_frame = range.start])
      ELSE Ok([a EXCEPT !.current_frame = nf])

next_frame_forward(a, range) ==
  LET nf == a.current_frame + 1 IN
    IF Contains(range, U16(nf))
      THEN Ok([a EXCEPT !.current_frame = nf])
      ELSE Ok([a EXCEPT !.current_frame = range.start])

\* a wrap to range.end, without the - 1
next_frame_reverse_end(a, range) ==
  IF a.current_frame >= 1 /\ Contains(range, U16(a.current_frame - 1))
    THEN Ok([a EXCEPT !.current_frame = a.current_frame - 1])
    ELSE Ok([a EXCEPT !.current_frame = range.end])

\* range.end as usize - 1 underflows when end = 0
next_frame_reverse(a, range) ==
  IF a.current_frame >= 1 /\ Contains(range, U16(a.current_frame - 1))
    THEN Ok([a EXCEPT !.current_frame = a.current_frame - 1])
    ELSE IF range.end = 0 THEN Panic(a)
         ELSE Ok([a EXCEPT !.current_frame = range.end - 1])

\* a bounce that wraps to the range start instead of staying on the last frame
next_frame_pingpong_forward_wrap(a, range) ==
  LET nf == a.current_frame + 1 IN
    IF Contains(range, U16(nf))
      THEN Ok([a EXCEPT !.current_frame = nf])
      ELSE Ok([a EXCEPT !.current_frame = range.start, !.forward = FALSE])

next_frame_pingpong_forward(a, range) ==
  LET nf == a.current_frame + 1 IN
    IF Contains(range, U16(nf))
      THEN Ok([a EXCEPT !.current_frame = nf])
      ELSE Ok([a EXCEPT !.current_frame = nf - 1, !.forward = FALSE])

next_frame_pingpong_reverse(a, range) ==
  LET stepped == IF a.current_frame >= 1 /\ Contains(range, U16(a.current_frame - 1))
                   THEN a.current_frame - 1
                   ELSE a.current_frame
  IN Ok([a EXCEPT !.current_frame = stepped + 1, !.forward = TRUE])

\* a step that stops on the last frame instead of wrapping
next_frame_untagged_clamp(a, inf) ==
  IF inf.frame_count = 0 THEN Panic(a)
  ELSE Ok([a EXCEPT !.current_frame =
             IF a.current_frame + 1 < inf.frame_count
               THEN a.current_frame + 1 ELSE a.current_frame])

next_frame_untagged(a, inf) ==
  IF inf.frame_count = 0 THEN Panic(a)
  ELSE Ok([a EXCEPT !.current_frame = (a.current_frame + 1) % inf.frame_count])

next_frame(a, inf) ==
  IF a.tag = NoTag THEN next_frame_untagged(a, inf)
  ELSE IF ~TagFound(a, inf) THEN Ok(a)
  ELSE LET tag == inf.tags[a.tag]
           range == [start |-> tag.start, end |-> tag.end]
       IN CASE tag.animation_direction = "Forward" -> next_frame_forward(a, range)
            [] tag.animation_direction = "Reverse" -> next_frame_reverse(a, range)
            [] tag.animation_direction = "PingPong" ->
                 IF a.forward THEN next_frame_pingpong_forward(a, range)
                 ELSE next_frame_pingpong_reverse(a, range)

\* a lookup that returns the range end
get_first_frame_end(a, inf) ==
  IF a.tag = NoTag THEN 0
  ELSE IF ~TagFound(a, inf) THEN 0
  ELSE inf.tags[a.tag].end

get_first_frame(a, inf) ==
  IF a.tag = NoTag THEN 0
  ELSE IF ~TagFound(a, inf) THEN 0
  ELSE inf.tags[a.tag].start

\* self.time_elapsed += dt
AddElapsed(a, dt) == [a EXCEPT !.time_elapsed = a.time_elapsed + dt]

\* a loop test that lets a full frame duration stand
LoopCondStrict(a, d) == a.time_elapsed > d

\* while self.time_elapsed >= current_frame_duration
LoopCond(a, d) == a.time_elapsed >= d

\* a frame change that drops the remaining time instead of carrying it
SubDurationReset(a, inf) == [a EXCEPT !.time_elapsed = 0]

\* a subtraction that always uses the first frame's duration
SubDurationFirst(a, inf) ==
  [a EXCEPT !.time_elapsed = a.time_elapsed - inf.delay_ms[1]]

\* self.time_elapsed -= current_frame_duration
SubDuration(a, inf) ==
  [a EXCEPT !.time_elapsed = a.time_elapsed - current_frame_duration(a, inf)]

\* self.next_frame(info), then the re-read of the new frame's duration
StepFrame(a, inf) ==
  LET r == next_frame(a, inf)
  IN IF r.status = "ok" /\ ~InBounds(r.anim, inf) THEN Panic(r.anim) ELSE r

\* one iteration of the catch-up loop
LoopBody(a, inf) == StepFrame(SubDuration(a, inf), inf)

\* The catch-up loop run to its end.  A clock state met twice at the loop
\* test never leaves the loop: time_elapsed only falls, so the iterations in
\* between all subtracted a zero duration.
RECURSIVE RunLoop(_, _, _, _)
RunLoop(a, inf, changed, seen) ==
  IF ~LoopCond(a, current_frame_duration(a, inf))
    THEN [anim |-> a, status |-> "ok", ret |-> changed]
  ELSE IF a \in seen
    THEN [anim |-> a, status |-> "hang", ret |-> changed]
  ELSE LET r == LoopBody(a, inf) IN
         IF r.status = "panic"
           THEN [anim |-> r.anim, status |-> "panic", ret |-> TRUE]
           ELSE RunLoop(r.anim, inf, TRUE, seen \cup {a})

\* a return value taken from comparing the frame index before and after
update_ret_by_frame(a, inf, dt) ==
  LET a0 == AddElapsed(a, dt)
      r == IF ~InBounds(a0, inf)
             THEN [anim |-> a0, status |-> "panic", ret |-> FALSE]
             ELSE RunLoop(a0, inf, FALSE, {})
  IN [r EXCEPT !.ret = (r.anim.current_frame /= a.current_frame)]

update(a, inf, dt) ==
  LET a0 == AddElapsed(a, dt) IN
    IF ~InBounds(a0, inf)
      THEN [anim |-> a0, status |-> "panic", ret |-> FALSE]
      ELSE RunLoop(a0, inf, FALSE, {})

play(a) == [a EXCEPT !.is_playing = TRUE]

pause(a) == [a EXCEPT !.is_playing = FALSE]

\* a toggle that only ever starts the clock
toggle_on(a) == [a EXCEPT !.is_playing = TRUE]

toggle(a) == [a EXCEPT !.is_playing = ~a.is_playing]

is_playing(a) == a.is_playing

is_paused(a) == ~a.is_playing

----------------------------------------------------------------------------
(* The clock driven by its host: whole calls *)

\* A clock made by Default or by tag(name), and the table it is run against.
\* An untagged clock never reads info.tags, so it is paired with the tables
\* that hold no tag only.
Init ==
  /\ info \in Tables
  /\ anim \in {AnimDefault} \cup {AnimTag(t) : t \in TagNames}
  /\ anim.tag = NoTag => DOMAIN info.tags = {}
  /\ status = "ok"
  /\ pc = "idle"
  /\ frame_changed = FALSE
  /\ pre = anim
  /\ lastOp = "new"
  /\ lastDt = 0
  /\ ret = FALSE
  /\ first_frame = 0

Update(dt) ==
  /\ status = "ok" /\ pc = "idle"
  /\ LET r == update(anim, info, dt) IN
       /\ anim' = r.anim
       /\ status' = r.status
       /\ ret' = r.ret
  /\ pre' = anim
  /\ lastOp' = "update"
  /\ lastDt' = dt
  /\ first_frame' = 0
  /\ UNCHANGED <<info, pc, frame_changed>>

Control(op, a) ==
  /\ status = "ok" /\ pc = "idle"
  /\ anim' = a
  /\ pre' = anim
  /\ lastOp' = op
  /\ lastDt' = 0
  /\ ret' = FALSE
  /\ first_frame' = 0
  /\ UNCHANGED <<info, status, pc, frame_changed>>

Play == Control("play", play(anim))

Pause == Control("pause", pause(anim))

Toggle == Control("toggle", toggle(anim))

\* get_first_frame(&self, info): reads the clock, returns an index
GetFirstFrame ==
  /\ status = "ok" /\ pc = "idle"
  /\ first_frame' = get_first_frame(anim, info)
  /\ pre' = anim
  /\ lastOp' = "get_first_frame"
  /\ lastDt' = 0
  /\ ret' = FALSE
  /\ UNCHANGED <<info, anim, status, pc, frame_changed>>

Next ==
  \/ \E dt \in 0..MaxDt : Update(dt)
  \/ Play
  \/ Pause
  \/ Toggle
  \/ GetFirstFrame

Spec == Init /\ [][Next]_vars

----------------------------------------------------------------------------
(* The same clock with update run one loop iteration at a time *)

UpdateBegin(dt) ==
  /\ status = "ok" /\ pc = "idle"
  /\ anim' = AddElapsed(anim, dt)
  /\ IF InBounds(anim, info)
       THEN pc' = "loop" /\ status' = "ok"
       ELSE pc' = "idle" /\ status' = "panic"
  /\ frame_changed' = FALSE
  /\ pre' = anim
  /\ lastOp' = "update_begin"
  /\ lastDt' = dt
  /\ UNCHANGED <<info, ret, first_frame>>

LoopTest ==
  /\ status = "ok" /\ pc = "loop"
  /\ LoopCond(anim, current_frame_duration(anim, info))
  /\ anim' = SubDuration(anim, info)
  /\ pc' = "step"
  /\ pre' = anim
  /\ lastOp' = "loop_test"
  /\ UNCHANGED <<info, status, frame_changed, lastDt, ret, first_frame>>

LoopStep ==
  /\ status = "ok" /\ pc = "step"
  /\ LET r == StepFrame(anim, info) IN
       /\ anim' = r.anim
       /\ status' = r.status
       /\ pc' = IF r.status = "ok" THEN "loop" ELSE "idle"
  /\ frame_changed' = TRUE
  /\ pre' = anim
  /\ lastOp' = "next_frame"
  /\ UNCHANGED <<info, lastDt, ret, first_frame>>

UpdateReturn ==
  /\ status = "ok" /\ pc = "loop"
  /\ ~LoopCond(anim, current_frame_duration(anim, info))
  /\ pc' = "idle"
  /\ ret' = frame_changed
  /\ frame_changed' = FALSE
  /\ pre' = anim
  /\ lastOp' = "update"
  /\ UNCHANGED <<info, anim, status, lastDt, first_frame>>

LoopNext ==
  \/ \E dt \in 0..MaxDt : UpdateBegin(dt)
  \/ LoopTest
  \/ LoopStep
  \/ UpdateReturn
  \/ Play
  \/ Pause
  \/ Toggle

LoopSpec == Init /\ [][LoopNext]_vars

\* the loop is ordinary sequential code: once entered it keeps running
LoopFairSpec ==
  LoopSpec /\ WF_vars(LoopTest) /\ WF_vars(LoopStep) /\ WF_vars(UpdateReturn)

\* update_animations calls update on every tick of the host, and time passes
\* between ticks: calls with a positive dt keep being made
HostFairSpec == LoopFairSpec /\ SF_vars(\E dt \in 1..MaxDt : UpdateBegin(dt))

----------------------------------------------------------------------------
(* Properties *)

\* the clock's tag resolves in the table
TagActive == anim.tag /= NoTag /\ TagFound(anim, info)

ActiveTag == info.tags[anim.tag]

PingPongActive == TagActive /\ ActiveTag.animation_direction = "PingPong"

AllPositive == \A i \in 1..info.frame_count : info.delay_ms[i] > 0

\* C1: in every reachable state 0 <= current_frame < frame_count, and with
\* a resolvable tag active start <= current_frame < end.
C1_FrameInRange ==
  info.frame_count >= 1 =>
    /\ 0 <= anim.current_frame /\ anim.current_frame < info.frame_count
    /\ TagActive => Contains(ActiveTag, anim.current_frame)

\* C2: update on a paused clock returns false and leaves current_frame,
\* forward and time_elapsed unchanged.
C2_PausedUpdateNoOp ==
  (lastOp = "update" /\ status = "ok" /\ ~pre.is_playing) =>
    /\ ret = FALSE
    /\ anim.current_frame = pre.current_frame
    /\ anim.forward = pre.forward
    /\ anim.time_elapsed = pre.time_elapsed

\* C3: every update call terminates: once the catch-up loop is entered it
\* is eventually left.
C3_UpdateTerminates == (pc = "loop") ~> (pc = "idle")

\* C4: after every completed update call,
\* 0 <= time_elapsed < duration of the frame the clock ends on.
C4_ElapsedBelowDuration ==
  (lastOp = "update" /\ status = "ok") =>
    /\ 0 <= anim.time_elapsed
    /\ anim.time_elapsed < current_frame_duration(anim, info)

C4_Witness ==
  /\ lastOp = "update" /\ status = "ok" /\ ret = TRUE
  /\ anim.current_frame /= pre.current_frame
  /\ anim.time_elapsed > 0
  /\ anim.time_elapsed < current_frame_duration(anim, info)

\* C5: under a PingPong tag, biased reverse with current_frame - 1 inside
\* the range, one next_frame step moves to current_frame - 1 and keeps the
\* bias reverse.
C5_PingPongReverseStep ==
  (/\ lastOp = "next_frame" /\ PingPongActive
   /\ ~pre.forward /\ pre.current_frame >= 1
   /\ Contains(ActiveTag, pre.current_frame - 1)) =>
    /\ anim.current_frame = pre.current_frame - 1
    /\ anim.forward = FALSE

\* C6: under a PingPong tag whose range has at least two frames, every
\* frame of the range is shown again and again.
C6_PingPongSweeps ==
  \A f \in 0..(MaxFrames - 1) :
    (/\ status = "ok" /\ PingPongActive /\ AllPositive
     /\ ActiveTag.end - ActiveTag.start >= 2
     /\ Contains(ActiveTag, f)) ~> (anim.current_frame = f)

\* C7: under a PingPong tag, biased forward: at current_frame = end - 1 one
\* next_frame step stays on end - 1 and flips the bias to reverse; with
\* current_frame + 1 inside the range it moves there and stays forward.
C7_PingPongForwardStep ==
  (lastOp = "next_frame" /\ PingPongActive /\ pre.forward) =>
    /\ pre.current_frame = ActiveTag.end - 1 =>
         anim.current_frame = ActiveTag.end - 1 /\ anim.forward = FALSE
    /\ Contains(ActiveTag, pre.current_frame + 1) =>
         anim.current_frame = pre.current_frame + 1 /\ anim.forward = TRUE

C7_Witness ==
  /\ lastOp = "next_frame" /\ PingPongActive /\ pre.forward
  /\ ActiveTag.end - ActiveTag.start >= 2
  /\ pre.current_frame = ActiveTag.end - 1
  /\ anim.current_frame = ActiveTag.end - 1 /\ anim.forward = FALSE

\* C8: a clock created with a named tag starts on the tag's range start,
\* and a clock created with no tag starts on frame 0.
C8_StartsAtRangeStart ==
  lastOp = "new" =>
    /\ anim.tag = NoTag => anim.current_frame = 0
    /\ TagActive => anim.current_frame = ActiveTag.start

\* k consecutive calls update(table, d)
RECURSIVE UpdateTimes(_, _, _, _)
UpdateTimes(a, inf, d, k) ==
  IF k = 0 THEN [anim |-> a, status |-> "ok", ret |-> FALSE]
  ELSE LET r == update(a, inf, d) IN
         IF r.status /= "ok" THEN r ELSE UpdateTimes(r.anim, inf, d, k - 1)

UniformPositive ==
  /\ info.frame_count >= 1
  /\ info.delay_ms[1] > 0
  /\ \A i \in 1..info.frame_count : info.delay_ms[i] = info.delay_ms[1]

\* C9: on a table of uniform positive frame duration d, update(table, k*d)
\* ends in the same clock state as k consecutive calls update(table, d).
C9_CatchUpEquivalence ==
  (status = "ok" /\ UniformPositive) =>
    \A k \in 0..MaxK :
      LET d == info.delay_ms[1]
          once == update(anim, info, k * d)
          each == UpdateTimes(anim, info, d, k)
      IN /\ once.status = each.status
         /\ once.status = "ok" => once.anim = each.anim

C9_Witness ==
  /\ lastOp = "update" /\ status = "ok" /\ UniformPositive
  /\ lastDt = 2 * info.delay_ms[1]
  /\ UpdateTimes(pre, info, info.delay_ms[1], 2).anim = anim
  /\ update(pre, info, info.delay_ms[1]).anim /= anim
  /\ anim.current_frame /= pre.current_frame

\* C10: update(table, 0) returns false, and on a playing clock leaves all
\* clock state unchanged.
C10_ZeroDtNoOp ==
  (lastOp = "update" /\ status = "ok" /\ lastDt = 0) =>
    /\ ret = FALSE
    /\ pre.is_playing => anim = pre

ReverseActive == TagActive /\ ActiveTag.animation_direction = "Reverse"

ForwardActive == TagActive /\ ActiveTag.animation_direction = "Forward"

\* C11: under a Reverse tag one next_frame step moves to current_frame - 1
\* when that lies inside [start, end), and to end - 1 otherwise.
C11_ReverseStep ==
  (lastOp = "next_frame" /\ ReverseActive) =>
    IF pre.current_frame >= 1 /\ Contains(ActiveTag, pre.current_frame - 1)
      THEN anim.current_frame = pre.current_frame - 1
      ELSE anim.current_frame = ActiveTag.end - 1

C11_Witness ==
  /\ lastOp = "next_frame" /\ ReverseActive /\ status = "ok"
  /\ ActiveTag.start >= 1 /\ ActiveTag.end - ActiveTag.start >= 2
  /\ pre.current_frame = ActiveTag.start
  /\ anim.current_frame = ActiveTag.end - 1

\* C12: under a Forward tag one next_frame step moves to current_frame + 1
\* when that lies inside [start, end), and to start otherwise.
C12_ForwardStep ==
  (lastOp = "next_frame" /\ ForwardActive) =>
    IF Contains(ActiveTag, pre.current_frame + 1)
      THEN anim.current_frame = pre.current_frame + 1
      ELSE anim.current_frame = ActiveTag.start

C12_Witness ==
  /\ lastOp = "next_frame" /\ ForwardActive /\ status = "ok"
  /\ ActiveTag.start >= 1 /\ ActiveTag.end - ActiveTag.start >= 2
  /\ pre.current_frame = ActiveTag.end - 1
  /\ anim.current_frame = ActiveTag.start

\* C13: for an untagged clock on a table with at least one frame, one
\* next_frame step sets current_frame to (current_frame + 1) mod frame_count.
C13_UntaggedStep ==
  (lastOp = "next_frame" /\ anim.tag = NoTag /\ info.frame_count >= 1) =>
    anim.current_frame = (pre.current_frame + 1) % info.frame_count

C13_Witness ==
  /\ lastOp = "next_frame" /\ anim.tag = NoTag /\ status = "ok"
  /\ info.frame_count >= 3
  /\ pre.current_frame = info.frame_count - 1
  /\ anim.current_frame = 0

\* the clock names a tag that the table does not hold
TagUnresolved == anim.tag /= NoTag /\ ~TagFound(anim, info)

\* C14: with an unresolvable tag next_frame is a no-op: after any sequence
\* of update calls current_frame and forward are what they were at creation,
\* and no call faults.
C14_UnresolvedTagNoOp ==
  TagUnresolved =>
    /\ anim.current_frame = AnimDefault.current_frame
    /\ anim.forward = AnimDefault.forward
    /\ status /= "panic"

\* C15: an update on a table with zero frames does not fault.
C15_ZeroFramesNoFault ==
  (info.frame_count = 0 /\ lastOp = "update") => status /= "panic"

\* C16: get_first_frame returns the tag's range start when the tag resolves
\* and 0 when the clock is untagged or the tag is absent; it changes no
\* clock state and does not fault.
C16_FirstFrame ==
  lastOp = "get_first_frame" =>
    /\ first_frame = IF TagActive THEN ActiveTag.start ELSE 0
    /\ anim = pre
    /\ status = "ok"

C16_Witness ==
  /\ lastOp = "get_first_frame" /\ TagActive
  /\ ActiveTag.start >= 1
  /\ first_frame = ActiveTag.start
  /\ anim.current_frame /= first_frame
  /\ anim = pre

\* C17: play, pause and toggle change is_playing only (true, false, negated);
\* is_paused is the negation of is_playing; two toggles restore the clock.
C17_PlayPauseToggle ==
  /\ lastOp = "play" => anim = [pre EXCEPT !.is_playing = TRUE]
  /\ lastOp = "pause" => anim = [pre EXCEPT !.is_playing = FALSE]
  /\ lastOp = "toggle" => anim = [pre EXCEPT !.is_playing = ~pre.is_playing]
  /\ is_paused(anim) = ~is_playing(anim)
  /\ toggle(toggle(anim)) = anim

C17_Witness ==
  /\ lastOp = "toggle" /\ pre.is_playing /\ ~anim.is_playing
  /\ anim.current_frame >= 1 /\ anim.time_elapsed >= 1
  /\ anim.current_frame = pre.current_frame
  /\ anim.time_elapsed = pre.time_elapsed

\* C18: update returns true exactly when time_elapsed + dt at entry reaches
\* the duration of the frame the clock is on at entry; when it returns false
\* current_frame and forward are unchanged and time_elapsed has grown by dt.
C18_ReturnValue ==
  (lastOp = "update" /\ status = "ok") =>
    /\ ret <=> (pre.time_elapsed + lastDt >= current_frame_duration(pre, info))
    /\ ~ret => anim = AddElapsed(pre, lastDt)

C18_Witness ==
  /\ lastOp = "update" /\ status = "ok" /\ ret = TRUE
  /\ pre.time_elapsed >= 1 /\ lastDt >= 1
  /\ pre.time_elapsed + lastDt = current_frame_duration(pre, info)
  /\ anim.current_frame /= pre.current_frame

\* an update call crosses at most this many frame boundaries when every
\* duration is positive: time_elapsed < MaxDelay at entry, plus dt
MaxSteps == MaxDelay + MaxDt

\* n next_frame steps from clock a, and the durations of the frames left
RECURSIVE Walk(_, _, _)
Walk(a, inf, n) ==
  IF n = 0 THEN [anim |-> a, left |-> 0, ok |-> TRUE]
  ELSE IF ~InBounds(a, inf) THEN [anim |-> a, left |-> 0, ok |-> FALSE]
  ELSE LET r == next_frame(a, inf) IN
         IF r.status /= "ok" THEN [anim |-> a, left |-> 0, ok |-> FALSE]
         ELSE LET w == Walk(r.anim, inf, n - 1) IN
                [anim |-> w.anim,
                 left |-> current_frame_duration(a, inf) + w.left,
                 ok |-> w.ok]

\* the call that led here took n steps and conserved time over them
Conserved(n) ==
  LET w == Walk(pre, info, n) IN
    /\ w.ok
    /\ pre.time_elapsed + lastDt = anim.time_elapsed + w.left
    /\ anim.current_frame = w.anim.current_frame
    /\ anim.forward = w.anim.forward

\* C19: on a table of positive durations, time_elapsed at entry + dt equals
\* time_elapsed at exit plus the durations of the frames left during the
\* call, each frame's own, with one next_frame step per duration subtracted.
C19_TimeConserved ==
  (lastOp = "update" /\ status = "ok" /\ AllPositive) =>
    \E n \in 0..MaxSteps : Conserved(n) /\ (ret <=> n >= 1)

C19_Witness ==
  /\ lastOp = "update" /\ status = "ok" /\ AllPositive /\ ret = TRUE
  /\ Conserved(2)
  /\ current_frame_duration(pre, info)
       /= current_frame_duration(next_frame(pre, info).anim, info)
  /\ current_frame_duration(pre, info) /= info.delay_ms[1]

\* C20: under a resolvable Forward or Reverse tag every next_frame step,
\* also one from a current_frame outside the range (the 0 of a new tagged
\* clock), leaves current_frame inside [start, end), where it then stays.
C20_StepEntersRange ==
  (ForwardActive \/ ReverseActive) =>
    /\ lastOp = "next_frame" => Contains(ActiveTag, anim.current_frame)
    /\ ~Contains(ActiveTag, anim.current_frame) =>
         anim.current_frame = AnimDefault.current_frame /\ frame_changed = FALSE

C20_Witness ==
  /\ lastOp = "next_frame" /\ (ForwardActive \/ ReverseActive)
  /\ ~Contains(ActiveTag, pre.current_frame)
  /\ ~Contains(ActiveTag, pre.current_frame + 1)
  /\ Contains(ActiveTag, anim.current_frame)

====
